---- MODULE Spec2Model ----
(***************************************************************************)
(* The Common Crawl -> DuckLake ingestion pipeline of columnar.py (HTTP    *)
(* transport) and columnar-s3.py (object-storage transport), as a state    *)
(* machine.  One behaviour is a sequence of runs of main() against the     *)
(* same DuckLake database and the same crawl metadata.                     *)
(***************************************************************************)
EXTENDS Integers, Sequences, FiniteSets, TLC

(***************************************************************************)
(* Bounds of the model.                                                    *)
(***************************************************************************)
MaxRuns == 2
\* number of add-file operations that may raise in one run
MaxFaults == 2

(***************************************************************************)
(* Crawl ids.  Every id starts with "CC-MAIN-"; SQL compares VARCHARs byte *)
(* by byte, so two ids compare like the byte strings of what follows that  *)
(* prefix.  IdChars gives those bytes (ASCII).                             *)
(***************************************************************************)
Dash == 45
Slash == 47
Zero == 48

IdChars(id) ==
    CASE id = "CC-MAIN-2012"    -> <<50, 48, 49, 50>>
      [] id = "CC-MAIN-2013-20" -> <<50, 48, 49, 51, Dash, 50, 48>>
      [] id = "CC-MAIN-2021-43" -> <<50, 48, 50, 49, Dash, 52, 51>>
      [] id = "CC-MAIN-2021-45" -> <<50, 48, 50, 49, Dash, 52, 53>>
      [] id = "CC-MAIN-2021-49" -> <<50, 48, 50, 49, Dash, 52, 57>>
      [] id = "CC-MAIN-2024-10" -> <<50, 48, 50, 52, Dash, 49, 48>>

\* the ids the metadata endpoint may list
AllIds ==
    {"CC-MAIN-2012", "CC-MAIN-2021-43", "CC-MAIN-2021-45",
     "CC-MAIN-2021-49", "CC-MAIN-2024-10"}

\* bytewise comparison of two byte strings: a < b
RECURSIVE LexLess(_, _)
LexLess(a, b) ==
    IF b = <<>> THEN FALSE
    ELSE IF a = <<>> THEN TRUE
    ELSE IF Head(a) # Head(b) THEN Head(a) < Head(b)
    ELSE LexLess(Tail(a), Tail(b))

LexLeq(a, b) == a = b \/ LexLess(a, b)

\* SQL: x BETWEEN lo AND hi
Between(x, lo, hi) == LexLeq(lo, x) /\ LexLeq(x, hi)

(***************************************************************************)
(* The two destination tables and the columns the pipeline cares about.    *)
(***************************************************************************)
CC_MAIN_2013_TO_2021 == "CC_MAIN_2013_TO_2021"
CC_MAIN_2021_AND_FORWARD == "CC_MAIN_2021_AND_FORWARD"
Tables == {CC_MAIN_2013_TO_2021, CC_MAIN_2021_AND_FORWARD}

\* str.lower() on the column names of the model
Lower(c) ==
    CASE c = "Content_Languages" -> "content_languages"
      [] c = "Content_Charset"   -> "content_charset"
      [] c = "Fetch_Redirect"    -> "fetch_redirect"
      [] OTHER                   -> c

RequiredColumns == {"content_languages", "content_charset", "fetch_redirect"}

BaseColumns == {"url", "fetch_time"}

\* schema of the parquet files of CC-MAIN-2021-49 and later
NewSchema == BaseColumns \cup RequiredColumns

\* schemas the parquet files up to CC-MAIN-2021-43 may have
SchemaChoices ==
    {BaseColumns \cup S : S \in SUBSET {"content_languages", "Content_Charset", "fetch_redirect"}}

(***************************************************************************)
(* Source files.  A path of cc-index-table.paths.gz reads                  *)
(*   cc-index/table/cc-main/warc/crawl=<id>/subset=warc/part-<n>...parquet *)
(* and the url is the transport's base prefix followed by the path.        *)
(***************************************************************************)
BasePrefix(v) ==
    IF v = "s3" THEN "s3://commoncrawl/" ELSE "https://data.commoncrawl.org/"

Url(v, id, n) == [base |-> BasePrefix(v), crawl |-> id, part |-> n]

\* the part numbers listed by the path-list of a crawl
PathList(id) == IF id = "CC-MAIN-2021-43" THEN {0, 1} ELSE {0}

\* the bytes of a url from the first byte at which two urls of one transport
\* can differ: the id after "crawl=CC-MAIN-", the "/" that ends it, the part
UrlChars(f) == IdChars(f.crawl) \o <<Slash, Zero + f.part>>

UrlLeq(f, g) == LexLeq(UrlChars(f), UrlChars(g))

\* SELECT MAX(url): the empty set stands for NULL
MaxUrl(S) == {f \in S : \A g \in S : UrlLeq(g, f)}

\* ORDER BY url DESC
RECURSIVE OrderByUrl_Descending(_)
OrderByUrl_Descending(S) ==
    IF S = {} THEN <<>>
    ELSE LET f == CHOOSE x \in S : \A g \in S : UrlLeq(g, x)
         IN  <<f>> \o OrderByUrl_Descending(S \ {f})

\* ORDER BY url
RECURSIVE OrderByUrl(_)
OrderByUrl(S) ==
    IF S = {} THEN <<>>
    ELSE LET f == CHOOSE x \in S : \A g \in S : UrlLeq(x, g)
         IN  <<f>> \o OrderByUrl(S \ {f})

Range(s) == {s[k] : k \in DOMAIN s}

(***************************************************************************)
(* The queries of main().                                                  *)
(***************************************************************************)
DenyList == {"CC-MAIN-2012", "CC-MAIN-2009-2010", "CC-MAIN-2008-2009"}

\* crawl_info: the ids of collinfo.json outside the deny list
CrawlInfo(ids) == ids \ DenyList

\* crawl_parquet_files: every line of every path-list, prefixed
CrawlParquetFiles(v, ids) ==
    UNION {{Url(v, id, n) : n \in PathList(id)} : id \in ids}

\* INNER JOIN crawl_info ON contains(url, '/crawl=' || crawl_info.id || '/')
JoinCrawlInfo(files, ids) == {f \in files : f.crawl \in ids}

\* idempotent_parquet_files without its EXCEPT clauses
IdempotentParquetFiles_NoExcept(files, m) == files

\* idempotent_parquet_files without the EXCEPT over CC_MAIN_2013_TO_2021
IdempotentParquetFiles_OneExcept(files, m) == files \ m[CC_MAIN_2021_AND_FORWARD]

\* the view idempotent_parquet_files over the manifests m
IdempotentParquetFiles(files, m) ==
    (files \ m[CC_MAIN_2013_TO_2021]) \ m[CC_MAIN_2021_AND_FORWARD]

\* WHERE id BETWEEN 'CC-MAIN-2013-20' AND 'CC-MAIN-2021-43'
InOldRange(id) ==
    Between(IdChars(id), IdChars("CC-MAIN-2013-20"), IdChars("CC-MAIN-2021-43"))

\* WHERE id >= 'CC-MAIN-2021-49'
InNewRange(id) == LexLeq(IdChars("CC-MAIN-2021-49"), IdChars(id))

\* a delta of CC_MAIN_2013_TO_2021 that is not taken from the view
SelectOld_NoExcept(files, ids, m) ==
    OrderByUrl({f \in JoinCrawlInfo(files, ids) : InOldRange(f.crawl)})

SelectOld(files, ids, m) ==
    OrderByUrl({f \in JoinCrawlInfo(IdempotentParquetFiles(files, m), ids) :
                    InOldRange(f.crawl)})

\* a second delta that is not restricted to the crawls of its table
SelectNew_AnyRange(files, ids, m) ==
    OrderByUrl(JoinCrawlInfo(IdempotentParquetFiles(files, m), ids))

SelectNew(files, ids, m) ==
    OrderByUrl({f \in JoinCrawlInfo(IdempotentParquetFiles(files, m), ids) :
                    InNewRange(f.crawl)})

\* the columns main() adds to CC_MAIN_2013_TO_2021 when absent, in order
ColumnsToEnsure(v) ==
    IF v = "s3" THEN <<"content_charset", "fetch_redirect">>
    ELSE <<"content_languages", "content_charset", "fetch_redirect">>

(***************************************************************************)
(* State.                                                                  *)
(***************************************************************************)
VARIABLES
    variant,                    \* "http": columnar.py, "s3": columnar-s3.py
    collinfo,                   \* the ids collinfo.json lists
    old_schema,                 \* schema of the parquet files up to CC-MAIN-2021-43
    \* the DuckLake database, which outlives a run
    tables,                     \* the tables that exist
    columns,                    \* table -> its column names
    manifest,                   \* table -> ducklake_list_files(table)
    archives,                   \* the view commoncrawl.archives
    \* one run of main()
    pc,
    aws_access_key,             \* columnar-s3.py: os.environ.get(), "unset" for None,
                                \* "unread" before the call and in columnar.py
    aws_secret_key,
    connected,                  \* con = duckdb.connect() has been reached
    shutdown_requested,
    crawl_ids,
    unresolved,                 \* the crawls whose path-list could not be fetched
    crawl_parquet_files,
    parquet_files_2013_2021,
    parquet_files_2021_forward,
    i,                          \* enumerate(..., 1) of the running loop
    exitCode,
    \* history
    run,                        \* number of the run, from 1
    fresh,                      \* the database was empty before the first run
    selected,                   \* the tables whose delta this run has selected
    log,                        \* the add-file operations of this run, in order
    ops,                        \* the other statements this run issued on the store
    exitKind,                   \* how this run ended
    last                        \* how the run before this one ended

store == <<tables, columns, manifest, archives>>
input == <<variant, collinfo, old_schema>>
session == <<aws_access_key, aws_secret_key, connected>>
locals == <<session, shutdown_requested, crawl_ids, unresolved, crawl_parquet_files,
            parquet_files_2013_2021, parquet_files_2021_forward, i>>
history == <<run, fresh, selected, log, ops, last>>
vars == <<input, store, pc, locals, exitCode, exitKind, history>>

NoView == [defined |-> FALSE, new_columns |-> {}, old_columns |-> {}]

NoManifest == [t \in Tables |-> {}]

\* a statement a run issues on the store other than an add-file call, with
\* the number of add-file calls issued before it
Statement(op, t, col, sample) ==
    [op |-> op, table |-> t, column |-> col, sample |-> sample, adds |-> Len(log)]

\* the files of this run's log, by outcome
Attempted == {log[k].url : k \in DOMAIN log}
Absorbed == {log[k].url : k \in {n \in DOMAIN log : log[n].outcome = "ok"}}
Skipped == {log[k].url : k \in {n \in DOMAIN log : log[n].outcome # "ok"}}
Faults == Cardinality({k \in DOMAIN log : log[k].outcome # "ok"})

\* the delta of this run: what it selected, and for a destination it did
\* not get to, what its query selects now
DeltaOf(t) ==
    IF t \in selected
    THEN IF t = CC_MAIN_2013_TO_2021 THEN Range(parquet_files_2013_2021)
         ELSE Range(parquet_files_2021_forward)
    ELSE IF t = CC_MAIN_2013_TO_2021
         THEN Range(SelectOld(crawl_parquet_files, crawl_ids, manifest))
         ELSE Range(SelectNew(crawl_parquet_files, crawl_ids, manifest))

RunDelta ==
    IF selected = {} THEN {}
    ELSE DeltaOf(CC_MAIN_2013_TO_2021) \cup DeltaOf(CC_MAIN_2021_AND_FORWARD)

Abandoned == RunDelta \ Attempted

NoRun ==
    [kind |-> "none", code |-> 0, cancelled |-> FALSE, delta |-> {},
     absorbed |-> {}, skipped |-> {}, abandoned |-> {},
     archives |-> NoView, manifest |-> NoManifest,
     tables |-> {}, columns |-> [t \in Tables |-> {}]]

Summary ==
    [kind |-> exitKind, code |-> exitCode, cancelled |-> shutdown_requested,
     delta |-> RunDelta, absorbed |-> Absorbed, skipped |-> Skipped,
     abandoned |-> Abandoned, archives |-> archives, manifest |-> manifest,
     tables |-> tables, columns |-> columns]

(***************************************************************************)
(* Initial states: the transport, the crawl metadata, the schema of the    *)
(* old files and the database the first run finds.                         *)
(***************************************************************************)
\* manifests an earlier, possibly misrouting, ingestion may have left
ManifestChoices(v) ==
    {[t \in Tables |-> IF t = CC_MAIN_2013_TO_2021 THEN a ELSE b] :
        a \in {{}, {Url(v, "CC-MAIN-2021-49", 0)}},
        b \in {{}, {Url(v, "CC-MAIN-2021-43", 1)}}}

\* collinfo.json always lists the deny-listed crawls
CollinfoChoices == {S \in SUBSET AllIds : "CC-MAIN-2012" \in S}

\* the database the first run finds: none, or both tables with some manifest
EmptyDatabase ==
    /\ fresh = TRUE
    /\ tables = {}
    /\ columns = [t \in Tables |-> {}]
    /\ manifest = NoManifest

Init ==
    /\ variant \in {"http", "s3"}
    /\ \/ /\ collinfo \in CollinfoChoices
          /\ old_schema = NewSchema
          /\ \/ EmptyDatabase
             \/ /\ fresh = FALSE
                /\ tables = Tables
                /\ columns = [t \in Tables |-> NewSchema]
                /\ manifest \in ManifestChoices(variant) \ {NoManifest}
       \/ /\ collinfo = AllIds
          /\ old_schema \in SchemaChoices \ {NewSchema}
          /\ EmptyDatabase
    /\ archives = NoView
    /\ pc = "exited"
    /\ aws_access_key = "unread"
    /\ aws_secret_key = "unread"
    /\ connected = FALSE
    /\ shutdown_requested = FALSE
    /\ crawl_ids = {}
    /\ unresolved = {}
    /\ crawl_parquet_files = {}
    /\ parquet_files_2013_2021 = <<>>
    /\ parquet_files_2021_forward = <<>>
    /\ i = 1
    /\ exitCode = 0
    /\ exitKind = "none"
    /\ run = 0
    /\ selected = {}
    /\ log = <<>>
    /\ ops = <<>>
    /\ last = NoRun

(***************************************************************************)
(* One run of main().                                                      *)
(***************************************************************************)
Exit(code, kind) ==
    /\ pc' = "exited"
    /\ exitCode' = code
    /\ exitKind' = kind

Continue(next) ==
    /\ pc' = next
    /\ UNCHANGED <<exitCode, exitKind>>

\* the script is started, as run number n
Begin(n) ==
    /\ pc = "exited"
    /\ run' = n
    /\ last' = Summary
    /\ log' = <<>>
    /\ ops' = <<>>
    /\ selected' = {}
    /\ aws_access_key' = "unread"
    /\ aws_secret_key' = "unread"
    /\ connected' = FALSE
    /\ shutdown_requested' = FALSE
    /\ crawl_ids' = {}
    /\ unresolved' = {}
    /\ crawl_parquet_files' = {}
    /\ parquet_files_2013_2021' = <<>>
    /\ parquet_files_2021_forward' = <<>>
    /\ i' = 1
    /\ pc' = IF variant = "s3" THEN "credentials" ELSE "connect"
    /\ exitCode' = 0
    /\ exitKind' = "running"
    /\ UNCHANGED <<input, store, fresh>>

\* the script is started (again)
StartRun ==
    /\ run < MaxRuns
    /\ Begin(run + 1)

\* the script is started once more; runs are counted up to MaxRuns
Restart ==
    /\ run = MaxRuns
    /\ Begin(run)

\* a check that looks at the access key only
CredentialsMissing_KeyOnly(key, secret) == key \in {"unset", ""}

\* columnar-s3.py: not aws_access_key or not aws_secret_key
CredentialsMissing(key, secret) == key \in {"unset", ""} \/ secret \in {"unset", ""}

CredentialExitCode == 1

CheckCredentials ==
    /\ pc = "credentials"
    /\ \E key \in {"unset", "", "key"}, secret \in {"unset", "", "secret"} :
          /\ aws_access_key' = key
          /\ aws_secret_key' = secret
          /\ IF CredentialsMissing(key, secret)
             THEN Exit(CredentialExitCode, "credentials")
             ELSE Continue("connect")
    /\ UNCHANGED <<input, store, connected, shutdown_requested, crawl_ids, unresolved,
                   crawl_parquet_files, parquet_files_2013_2021,
                   parquet_files_2021_forward, i, history>>

\* Ctrl+C before signal.signal(): KeyboardInterrupt, caught by __main__
KeyboardInterrupt ==
    /\ pc \in {"credentials", "connect"}
    /\ Exit(0, "keyboard_interrupt")
    /\ UNCHANGED <<input, store, locals, history>>

\* duckdb.connect(), the shutdown flag and its SIGINT handler, the extensions
Connect ==
    /\ pc = "connect"
    /\ connected' = TRUE
    /\ shutdown_requested' = FALSE
    /\ Continue("crawl_info")
    /\ UNCHANGED <<input, store, aws_access_key, aws_secret_key, crawl_ids, unresolved, crawl_parquet_files,
                   parquet_files_2013_2021, parquet_files_2021_forward, i, history>>

\* signal_handler
Interrupt ==
    /\ pc \notin {"exited", "credentials", "connect"}
    /\ ~shutdown_requested
    /\ shutdown_requested' = TRUE
    /\ UNCHANGED <<input, store, pc, session, crawl_ids, unresolved, crawl_parquet_files,
                   parquet_files_2013_2021, parquet_files_2021_forward, i,
                   exitCode, exitKind, history>>

\* an exception that leaves main(): only KeyboardInterrupt is caught
UncaughtExitCode == 1

Raise(step) == Exit(UncaughtExitCode, step)

\* the ways a run ends with an uncaught exception, by the step that raised
FatalKinds == {"collinfo", "path_list", "create_table", "alter", "add_file"}

\* crawl_info and crawl_ids; read_json raises when collinfo.json cannot be read
FetchCrawlInfo ==
    /\ pc = "crawl_info"
    /\ \E available \in BOOLEAN :
          IF available
          THEN /\ crawl_ids' = CrawlInfo(collinfo)
               /\ Continue("crawl_parquet_files")
          ELSE /\ Raise("collinfo")
               /\ UNCHANGED crawl_ids
    /\ UNCHANGED <<input, store, session, shutdown_requested, unresolved, crawl_parquet_files,
                   parquet_files_2013_2021, parquet_files_2021_forward, i, history>>

\* crawl_parquet_files: one read_csv over the path-lists of all crawl_ids,
\* which raises when the list is empty or one path-list cannot be fetched
ReadPathLists(ids, gone) ==
    IF ids = {} \/ gone \cap ids # {} THEN "raise" ELSE "ok"

BuildCatalog ==
    /\ pc = "crawl_parquet_files"
    /\ \E gone \in {{}} \cup {{id} : id \in crawl_ids} :
          /\ unresolved' = gone
          /\ IF ReadPathLists(crawl_ids, gone) = "ok"
             THEN /\ crawl_parquet_files' = CrawlParquetFiles(variant, crawl_ids)
                  /\ Continue("create_new")
             ELSE /\ Raise("path_list")
                  /\ UNCHANGED crawl_parquet_files
    /\ UNCHANGED <<input, store, session, shutdown_requested, crawl_ids,
                   parquet_files_2013_2021, parquet_files_2021_forward, i, history>>

\* schema of a source file, as read_parquet reports it
ParquetSchema(f) ==
    IF LexLeq(IdChars(f.crawl), IdChars("CC-MAIN-2021-43")) THEN old_schema
    ELSE NewSchema

\* SELECT MAX(url) FROM crawl_parquet_files
NewestParquetFile(files) == MaxUrl(files)

\* SELECT MAX(url) ... INNER JOIN crawl_info ... WHERE crawl_info.id = 'CC-MAIN-2021-43'
NewestParquetFileOld(files, ids) ==
    MaxUrl({f \in JoinCrawlInfo(files, ids) : f.crawl = "CC-MAIN-2021-43"})

\* CREATE TABLE IF NOT EXISTS t AS FROM read_parquet(sample) WITH NO DATA.
\* read_parquet(NULL) raises; whether the engine binds the query of a table
\* that exists is left open (binds).
CreateTableIfNotExists(t, sample, binds) ==
    /\ ops' = Append(ops, Statement("create_table", t, "", sample))
    /\ IF sample = {} /\ (t \notin tables \/ binds)
       THEN /\ Raise("create_table")
            /\ UNCHANGED store
       ELSE /\ IF t \in tables
               THEN UNCHANGED store
               ELSE /\ tables' = tables \cup {t}
                    /\ columns' = [columns EXCEPT
                                     ![t] = ParquetSchema(CHOOSE f \in sample : TRUE)]
                    /\ manifest' = [manifest EXCEPT ![t] = {}]
                    /\ UNCHANGED archives
            /\ Continue(IF t = CC_MAIN_2021_AND_FORWARD THEN "create_old" ELSE "columns")
    /\ UNCHANGED <<run, fresh, selected, log, last>>

CreateNewTable ==
    /\ pc = "create_new"
    /\ \E binds \in BOOLEAN :
          CreateTableIfNotExists(CC_MAIN_2021_AND_FORWARD,
                                 NewestParquetFile(crawl_parquet_files), binds)
    /\ UNCHANGED <<input, locals>>

CreateOldTable ==
    /\ pc = "create_old"
    /\ \E binds \in BOOLEAN :
          CreateTableIfNotExists(CC_MAIN_2013_TO_2021,
                                 NewestParquetFileOld(crawl_parquet_files, crawl_ids), binds)
    /\ UNCHANGED <<input, locals>>

\* existing_columns compared as spelled
ExistingColumns_CaseSensitive(cols) == cols

\* existing_columns = {row[0].lower() for row in existing_columns}
ExistingColumns(cols) == {Lower(c) : c \in cols}

\* the columns of ColumnsToEnsure the script finds missing, in order
MissingColumns(v, cols) ==
    SelectSeq(ColumnsToEnsure(v), LAMBDA c : c \notin ExistingColumns(cols))

\* the required-columns step: the first `done` ALTER TABLE ... ADD COLUMN
\* succeed; one more, if there is one, raises
EvolveSchema ==
    /\ pc = "columns"
    /\ LET missing == MissingColumns(variant, columns[CC_MAIN_2013_TO_2021])
       IN  \E done \in 0..Len(missing) :
              /\ columns' = [columns EXCEPT ![CC_MAIN_2013_TO_2021] =
                               @ \cup {missing[k] : k \in 1..done}]
              /\ ops' = ops \o [k \in 1..IF done < Len(missing) THEN done + 1 ELSE done |->
                                Statement("add_column", CC_MAIN_2013_TO_2021,
                                          missing[k], {})]
              /\ IF done < Len(missing) THEN Raise("alter") ELSE Continue("select_old")
    /\ UNCHANGED <<input, tables, manifest, archives, locals, run, fresh, selected, log,
                   last>>

(***************************************************************************)
(* Ingestion.                                                              *)
(***************************************************************************)
\* what a call of ducklake_add_data_files may do: add the file, or raise
\* because the remote end throttles (403) or for another reason
AddOutcomes == {"ok", "throttled", "error"}

\* an add that lists the file although it raised
AddDataFiles_Partial(m, t, url, outcome) == [m EXCEPT ![t] = @ \cup {url}]

\* an add that keeps a record of a file it gave up on
AddDataFiles_MarksFailed(m, t, url, outcome) ==
    IF outcome \in {"ok", "error"} THEN [m EXCEPT ![t] = @ \cup {url}] ELSE m

\* the manifest after CALL ducklake_add_data_files(t, url) ended `outcome`
AddDataFiles(m, t, url, outcome) ==
    IF outcome = "ok" THEN [m EXCEPT ![t] = @ \cup {url}] ELSE m

\* a loop body without the try/except
AfterAdd_Uncaught(outcome, loop) == IF outcome = "ok" THEN loop ELSE "raise"

\* try: ... except Exception: print a warning; the loop goes on either way
AfterAdd(outcome, loop) == loop

\* a loop that never looks at the flag
LoopEnds_NoFlag(files, n, flag) == n > Len(files)

\* if shutdown_requested['flag']: break, or the list is used up
LoopEnds(files, n, flag) == n > Len(files) \/ flag

\* the code of sys.exit() after "Shutdown requested"
ShutdownExitCode == 0

SelectOldDelta ==
    /\ pc = "select_old"
    /\ parquet_files_2013_2021' = SelectOld(crawl_parquet_files, crawl_ids, manifest)
    /\ selected' = selected \cup {CC_MAIN_2013_TO_2021}
    /\ i' = 1
    /\ Continue("old_check")
    /\ UNCHANGED <<input, store, session, shutdown_requested, crawl_ids, unresolved,
                   crawl_parquet_files, parquet_files_2021_forward, run, fresh, log, ops,
                   last>>

\* the head of the loop over parquet_files_2013_2021
OldCheck ==
    /\ pc = "old_check"
    /\ Continue(IF LoopEnds(parquet_files_2013_2021, i, shutdown_requested)
                THEN "old_exit" ELSE "old_add")
    /\ UNCHANGED <<input, store, locals, history>>

\* the body of a loop: one add-file operation on table t for files[i]
AddFile(t, files, loop) ==
    \E outcome \in AddOutcomes :
        /\ outcome # "ok" => Faults < MaxFaults
        /\ manifest' = AddDataFiles(manifest, t, files[i], outcome)
        /\ log' = Append(log, [table |-> t, url |-> files[i], outcome |-> outcome,
                               flag |-> shutdown_requested])
        /\ i' = i + 1
        /\ LET next == AfterAdd(outcome, loop)
           IN  IF next = "raise" THEN Raise("add_file") ELSE Continue(next)
        /\ UNCHANGED <<input, tables, columns, archives, session, shutdown_requested,
                       crawl_ids, unresolved, crawl_parquet_files, parquet_files_2013_2021,
                       parquet_files_2021_forward, run, fresh, selected, ops, last>>

OldAdd ==
    /\ pc = "old_add"
    /\ AddFile(CC_MAIN_2013_TO_2021, parquet_files_2013_2021, "old_check")

\* a check after a loop that does not look at the flag
ShutdownExit_Ignored(next) ==
    /\ Continue(next)
    /\ UNCHANGED <<input, store, locals, history>>

\* if shutdown_requested['flag']: con.close(); sys.exit(0)
ShutdownExit(next) ==
    /\ IF shutdown_requested THEN Exit(ShutdownExitCode, "cancelled")
       ELSE Continue(next)
    /\ UNCHANGED <<input, store, locals, history>>

OldShutdownExit ==
    /\ pc = "old_exit"
    /\ ShutdownExit("select_new")

SelectNewDelta ==
    /\ pc = "select_new"
    /\ parquet_files_2021_forward' = SelectNew(crawl_parquet_files, crawl_ids, manifest)
    /\ selected' = selected \cup {CC_MAIN_2021_AND_FORWARD}
    /\ i' = 1
    /\ Continue("new_check")
    /\ UNCHANGED <<input, store, session, shutdown_requested, crawl_ids, unresolved,
                   crawl_parquet_files, parquet_files_2013_2021, run, fresh, log, ops,
                   last>>

NewCheck ==
    /\ pc = "new_check"
    /\ Continue(IF LoopEnds(parquet_files_2021_forward, i, shutdown_requested)
                THEN "new_exit" ELSE "new_add")
    /\ UNCHANGED <<input, store, locals, history>>

NewAdd ==
    /\ pc = "new_add"
    /\ AddFile(CC_MAIN_2021_AND_FORWARD, parquet_files_2021_forward, "new_check")

NewShutdownExit ==
    /\ pc = "new_exit"
    /\ ShutdownExit("view")

\* CREATE OR REPLACE VIEW commoncrawl.archives: SELECT * binds the columns
\* the two tables have now
UnifiedView(cols) ==
    [defined |-> TRUE,
     new_columns |-> cols[CC_MAIN_2021_AND_FORWARD],
     old_columns |-> cols[CC_MAIN_2013_TO_2021]]

CreateUnifiedView ==
    /\ pc = "view"
    /\ archives' = UnifiedView(columns)
    /\ ops' = Append(ops, Statement("replace_view", "archives", "", {}))
    /\ Exit(0, "completed")
    /\ UNCHANGED <<input, tables, columns, manifest, locals, run, fresh, selected, log,
                   last>>

Next ==
    \/ StartRun
    \/ CheckCredentials
    \/ KeyboardInterrupt
    \/ Connect
    \/ Interrupt
    \/ FetchCrawlInfo
    \/ BuildCatalog
    \/ CreateNewTable
    \/ CreateOldTable
    \/ EvolveSchema
    \/ SelectOldDelta
    \/ OldCheck
    \/ OldAdd
    \/ OldShutdownExit
    \/ SelectNewDelta
    \/ NewCheck
    \/ NewAdd
    \/ NewShutdownExit
    \/ CreateUnifiedView

Spec == Init /\ [][Next]_vars

(***************************************************************************)
(* The script run again and again, on one list of crawls.                  *)
(***************************************************************************)
\* the catalog of the repeated runs
LiveCollinfo == {"CC-MAIN-2012", "CC-MAIN-2021-43", "CC-MAIN-2021-49"}

LiveInit ==
    /\ Init
    /\ collinfo = LiveCollinfo
    /\ old_schema = NewSchema

NextLive ==
    \/ Next
    \/ Restart

\* the add-file call for file f returns without raising
AddSucceeds(f) ==
    /\ OldAdd \/ NewAdd
    /\ log'[Len(log')].url = f
    /\ log'[Len(log')].outcome = "ok"

\* the script is started again whenever it has ended and each statement of
\* main() returns; a call of ducklake_add_data_files that is made again and
\* again for one file does not raise every time
LiveSpec ==
    /\ LiveInit
    /\ [][NextLive]_vars
    /\ WF_vars(NextLive)
    /\ \A f \in CrawlParquetFiles("http", LiveCollinfo)
                 \cup CrawlParquetFiles("s3", LiveCollinfo) : SF_vars(AddSucceeds(f))

(***************************************************************************)
(* Properties.                                                             *)
(***************************************************************************)
Manifests == manifest[CC_MAIN_2013_TO_2021] \cup manifest[CC_MAIN_2021_AND_FORWARD]

\* the files of the running loop that it has not got to yet
Pending ==
    IF pc \in {"old_check", "old_add"}
    THEN {parquet_files_2013_2021[k] : k \in i..Len(parquet_files_2013_2021)}
    ELSE IF pc \in {"new_check", "new_add"}
    THEN {parquet_files_2021_forward[k] : k \in i..Len(parquet_files_2021_forward)}
    ELSE {}

Ended == pc = "exited" /\ run > 0

\* C1: a selected delta holds no path that is in a manifest; and on a database
\* that started empty, a run that follows a completed run leaves the unified
\* view as that run left it, and, when that run absorbed its whole delta, adds
\* no file and no path to either manifest.
C1_Idempotence ==
    /\ Pending \cap Manifests = {}
    /\ (fresh /\ last.kind = "completed") =>
          /\ archives = last.archives
          /\ last.skipped = {} => (log = <<>> /\ manifest = last.manifest)

C1_Witness ==
    /\ fresh /\ run = 2 /\ Ended /\ exitKind = "completed"
    /\ last.kind = "completed" /\ last.skipped = {}
    /\ last.manifest[CC_MAIN_2013_TO_2021] # {}
    /\ last.manifest[CC_MAIN_2021_AND_FORWARD] # {}

\* C2: when a run ends without cancellation, every catalog file of the crawls
\* outside the deny list is in exactly one of the two manifests.
C2_Completeness ==
    (Ended /\ exitKind = "completed" /\ ~shutdown_requested) =>
        \A f \in CrawlParquetFiles(variant, collinfo \ DenyList) :
            (f \in manifest[CC_MAIN_2013_TO_2021])
                # (f \in manifest[CC_MAIN_2021_AND_FORWARD])

\* the boundary crawl of the two schema epochs
Boundary == "CC-MAIN-2021-49"

\* the destination the specification's router gives a crawl id
Route(id) ==
    IF LexLess(IdChars(id), IdChars(Boundary)) THEN CC_MAIN_2013_TO_2021
    ELSE CC_MAIN_2021_AND_FORWARD

\* C3: once both deltas are selected, every catalog file that was in no
\* manifest when the run began is in the delta of the destination its crawl
\* id routes to (OLD below the boundary id, NEW from the boundary id on) and
\* not in the other delta, and no file is added to another destination.
C3_Routing ==
    /\ \A k \in DOMAIN log : log[k].table = Route(log[k].url.crawl)
    /\ selected = Tables =>
          \A f \in crawl_parquet_files \ (last.manifest[CC_MAIN_2013_TO_2021]
                                          \cup last.manifest[CC_MAIN_2021_AND_FORWARD]) :
              /\ f \in Range(parquet_files_2013_2021)
                    <=> Route(f.crawl) = CC_MAIN_2013_TO_2021
              /\ f \in Range(parquet_files_2021_forward)
                    <=> Route(f.crawl) = CC_MAIN_2021_AND_FORWARD

\* C4: no path is in both manifests, in any state of any run.
C4_OneDestination ==
    manifest[CC_MAIN_2013_TO_2021] \cap manifest[CC_MAIN_2021_AND_FORWARD] = {}

C4_Witness ==
    /\ ~fresh /\ run = 2 /\ last.cancelled /\ last.skipped # {}
    /\ Cardinality(manifest[CC_MAIN_2013_TO_2021]) >= 2
    /\ Cardinality(manifest[CC_MAIN_2021_AND_FORWARD]) >= 2
    /\ \E f \in manifest[CC_MAIN_2013_TO_2021] : Route(f.crawl) # CC_MAIN_2013_TO_2021

\* the terminal states of a delta file in the run that just ended
IsAbsorbed(f) == f \in Absorbed /\ f \in Manifests
IsSkipped(f) == f \in Skipped /\ f \notin Manifests
IsAbandoned(f) == f \notin Attempted /\ f \notin Manifests

\* C5: when a run in which the flag was set ends after it reached ingestion,
\* every file of its delta is in exactly one of ABSORBED, SKIPPED, ABANDONED;
\* and a run that follows a cancelled run and goes through to the end has
\* issued an add-file operation for every file that run left ABANDONED and
\* for none it ABSORBED.
C5_CancellationSafety ==
    /\ (Ended /\ shutdown_requested /\ exitKind \in {"cancelled", "completed"}) =>
          \A f \in RunDelta :
              /\ IsAbsorbed(f) \/ IsSkipped(f) \/ IsAbandoned(f)
              /\ ~(IsAbsorbed(f) /\ IsSkipped(f))
              /\ ~(IsAbsorbed(f) /\ IsAbandoned(f))
              /\ ~(IsSkipped(f) /\ IsAbandoned(f))
    /\ (Ended /\ exitKind = "completed" /\ last.kind = "cancelled") =>
          /\ last.abandoned \subseteq Attempted
          /\ last.absorbed \cap Attempted = {}

C5_Witness ==
    /\ Ended /\ exitKind = "completed" /\ ~shutdown_requested
    /\ last.kind = "cancelled"
    /\ last.absorbed # {} /\ last.skipped # {} /\ last.abandoned # {}

\* C6: an add that is throttled is tried again on the same file: the next
\* add-file operation of the run, if there is one, is for that file, and when
\* a run ends that was not cancelled no throttled file is left SKIPPED.
C6_ThrottleRetry ==
    /\ \A k \in DOMAIN log :
          (log[k].outcome = "throttled" /\ k < Len(log)) => log[k + 1].url = log[k].url
    /\ (Ended /\ ~shutdown_requested) =>
          \A k \in DOMAIN log : log[k].outcome = "throttled" => log[k].url \in Absorbed

\* C7: once the required-columns step is over, the OLD table has the three
\* required columns, compared case-insensitively, in either script.
C7_SchemaSuperset ==
    (pc \in {"select_old", "old_check", "old_add", "old_exit", "select_new",
             "new_check", "new_add", "new_exit", "view"}
        \/ (Ended /\ exitKind \in {"cancelled", "completed"})) =>
        RequiredColumns \subseteq ExistingColumns(columns[CC_MAIN_2013_TO_2021])

\* the urls of the add-file operations of this run on table t, in order
Attempts(t) ==
    LET adds == SelectSeq(log, LAMBDA e : e.table = t)
    IN  [k \in DOMAIN adds |-> adds[k].url]

\* C8: an add that raises leaves its file out of every manifest, ends no run
\* (a run that has selected a delta never ends by an exception), and the loop
\* goes on with the next file: each loop has issued exactly one add-file
\* operation for every file before its index, in the order of the list, and a
\* run that ends without cancellation has attempted every file of both deltas.
C8_FailureContainment ==
    /\ \A k \in DOMAIN log : log[k].outcome # "ok" => log[k].url \notin Manifests
    /\ selected # {} => exitKind \notin FatalKinds
    /\ pc \in {"old_check", "old_add"} =>
          Attempts(CC_MAIN_2013_TO_2021) = SubSeq(parquet_files_2013_2021, 1, i - 1)
    /\ pc \in {"new_check", "new_add"} =>
          Attempts(CC_MAIN_2021_AND_FORWARD) = SubSeq(parquet_files_2021_forward, 1, i - 1)
    /\ (Ended /\ exitKind = "completed" /\ ~shutdown_requested) =>
          RunDelta \subseteq Attempted

C8_Witness ==
    /\ Ended /\ exitKind = "completed" /\ ~shutdown_requested
    /\ Len(log) = 4
    /\ log[1].outcome = "error" /\ log[1].table = CC_MAIN_2013_TO_2021
    /\ log[2].outcome = "ok" /\ log[2].table = CC_MAIN_2013_TO_2021
    /\ log[3].outcome = "error" /\ log[3].table = CC_MAIN_2021_AND_FORWARD
    /\ log[4].outcome = "ok"

\* C9: at most one add-file operation of a run is issued with the flag set,
\* the one whose check came before the flag, and it is the last of the run;
\* after it no further add is started; and a run that reached ingestion and
\* ends with the flag set exits with code 0.
C9_CooperativeCancellation ==
    /\ \A k \in DOMAIN log : log[k].flag => k = Len(log)
    /\ (log # <<>> /\ log[Len(log)].flag) => pc \notin {"old_add", "new_add", "select_new"}
    /\ (shutdown_requested /\ pc \in {"old_add", "new_add"}) =>
          \A k \in DOMAIN log : ~log[k].flag
    /\ (Ended /\ shutdown_requested /\ selected # {}) => exitCode = 0

C9_Witness ==
    /\ Ended /\ exitKind = "cancelled" /\ exitCode = 0
    /\ log # <<>> /\ log[Len(log)].flag
    /\ log[Len(log)].table = CC_MAIN_2013_TO_2021
    /\ Abandoned # {}

\* C10: a path-list that cannot be fetched does not end the run: the catalog
\* is built from the path-lists of the other crawls.
C10_MissingManifestRecoverable ==
    unresolved # {} =>
        /\ exitKind # "path_list"
        /\ pc \notin {"crawl_parquet_files", "exited"} =>
              crawl_parquet_files = CrawlParquetFiles(variant, crawl_ids \ unresolved)

\* the store as it was when this run started
StoreAtStart ==
    /\ tables = last.tables
    /\ columns = last.columns
    /\ manifest = last.manifest
    /\ archives = last.archives

\* an environment variable that is not set, or set to the empty string
Absent(value) == value \in {"unset", ""}

\* C11: a run of columnar-s3.py that has read the two credential variables and
\* found one of them absent or empty has ended, with a non-zero exit code,
\* before duckdb.connect(), without issuing a statement or an add-file call,
\* and tables, columns, manifests and view are as they were when it started.
C11_CredentialsFatal ==
    (variant = "s3" /\ (Absent(aws_access_key) \/ Absent(aws_secret_key))) =>
        /\ pc = "exited"
        /\ exitKind = "credentials"
        /\ exitCode # 0
        /\ ~connected
        /\ ops = <<>>
        /\ log = <<>>
        /\ StoreAtStart

C11_Witness ==
    /\ variant = "s3" /\ run = 2 /\ Ended
    /\ aws_access_key = "key" /\ aws_secret_key = ""
    /\ exitKind = "credentials"
    /\ last.kind = "completed"
    /\ last.manifest # NoManifest
    /\ last.archives.defined

\* the statements of one kind this run issued, in order
Statements(op) == SelectSeq(ops, LAMBDA s : s.op = op)

\* C12: a run that got past schema setup and has ended, at the end of its
\* ingestion or cancelled, has replaced the view exactly once, and after its
\* last add-file call.
C12_ViewReplacedEveryRun ==
    (Ended /\ selected # {}) =>
        /\ Len(Statements("replace_view")) = 1
        /\ Statements("replace_view")[1].adds = Len(log)

\* both manifests as they were when this run started
StartManifests ==
    last.manifest[CC_MAIN_2013_TO_2021] \cup last.manifest[CC_MAIN_2021_AND_FORWARD]

\* the catalog files in the crawl-id range of destination t
Routed(t) ==
    {f \in crawl_parquet_files :
        IF t = CC_MAIN_2013_TO_2021 THEN InOldRange(f.crawl) ELSE InNewRange(f.crawl)}

\* a list of paths in strictly ascending order, hence without duplicates
Ascending(files) ==
    \A j, k \in DOMAIN files :
        j < k => (UrlLeq(files[j], files[k]) /\ files[j] # files[k])

\* C13: the delta a run selects for a destination is the set of catalog files
\* in that destination's crawl-id range minus both manifests as they were when the run
\* started, listed in strictly ascending order of path; and no file that was
\* in either manifest then is the subject of an add-file call.
C13_DeltaComputation ==
    /\ CC_MAIN_2013_TO_2021 \in selected =>
          /\ Range(parquet_files_2013_2021)
                = Routed(CC_MAIN_2013_TO_2021) \ StartManifests
          /\ Ascending(parquet_files_2013_2021)
    /\ CC_MAIN_2021_AND_FORWARD \in selected =>
          /\ Range(parquet_files_2021_forward)
                = Routed(CC_MAIN_2021_AND_FORWARD) \ StartManifests
          /\ Ascending(parquet_files_2021_forward)
    /\ \A k \in DOMAIN log : log[k].url \notin StartManifests

C13_Witness ==
    /\ Ended /\ exitKind = "completed" /\ selected = Tables
    /\ Url(variant, "CC-MAIN-2021-49", 0) \in last.manifest[CC_MAIN_2013_TO_2021]
    /\ Url(variant, "CC-MAIN-2021-43", 1) \in last.manifest[CC_MAIN_2021_AND_FORWARD]
    /\ Len(parquet_files_2013_2021) = 1
    /\ Len(parquet_files_2021_forward) = 1
    /\ Len(log) = 2

\* the run is in its NEW phase: the check after the OLD loop let it through
NewPhase == pc = "select_new" \/ CC_MAIN_2021_AND_FORWARD \in selected

\* the add-file calls of a run follow each delta from its first file on, in
\* strictly ascending order of path, NEW after OLD and only when each file of
\* the OLD delta has had its call
InDeltaOrder ==
    /\ \A t \in Tables : Ascending(Attempts(t))
    /\ Attempts(CC_MAIN_2013_TO_2021)
          = SubSeq(parquet_files_2013_2021, 1, Len(Attempts(CC_MAIN_2013_TO_2021)))
    /\ Attempts(CC_MAIN_2021_AND_FORWARD)
          = SubSeq(parquet_files_2021_forward, 1, Len(Attempts(CC_MAIN_2021_AND_FORWARD)))
    /\ \A j, k \in DOMAIN log :
          (log[j].table = CC_MAIN_2013_TO_2021 /\ log[k].table = CC_MAIN_2021_AND_FORWARD)
              => j < k
    /\ \A k \in DOMAIN log :
          log[k].table = CC_MAIN_2021_AND_FORWARD =>
              /\ NewPhase
              /\ Attempts(CC_MAIN_2013_TO_2021) = parquet_files_2013_2021

\* C14: the add-file calls of a run on one destination follow that
\* destination's delta from its first file on, one file after the other in
\* strictly ascending order of path; every call on NEW comes after every call
\* on OLD and only when each file of the OLD delta has had its call; and a run
\* in which cancellation is requested before its NEW phase never enters that
\* phase, so issues no call on NEW.
C14_IngestionOrder ==
    /\ []InDeltaOrder
    /\ [][(shutdown_requested /\ pc # "exited" /\ ~NewPhase) => ~NewPhase']_vars

\* both deltas hold two files and all four were added, the last one while
\* cancellation was being requested
C14_Witness ==
    /\ Ended /\ exitKind = "cancelled"
    /\ Len(Attempts(CC_MAIN_2013_TO_2021)) = 2
    /\ Len(Attempts(CC_MAIN_2021_AND_FORWARD)) = 2

\* the column names of the OLD table, lower-cased
OldColumnNames == {Lower(c) : c \in columns[CC_MAIN_2013_TO_2021]}

\* the required-columns step comes before every add-file call, and a run it
\* ended has a non-zero exit code, no add-file call, no replace-view
\* statement, and manifests and view as they were when the run started
SchemaSetupFirst ==
    /\ pc = "columns" => (log = <<>> /\ selected = {})
    /\ \A k \in DOMAIN ops : ops[k].op = "add_column" => ops[k].adds = 0
    /\ \A j, k \in DOMAIN ops :
          (j # k /\ ops[j].op = "add_column" /\ ops[k].op = "add_column")
              => ops[j].column # ops[k].column
    /\ exitKind = "alter" =>
          /\ pc = "exited"
          /\ exitCode # 0
          /\ log = <<>>
          /\ Statements("replace_view") = <<>>
          /\ manifest = last.manifest
          /\ archives = last.archives

\* what the required-columns step does with columns that exist: it issues
\* ADD COLUMN for none of them, and when every column it looks for exists it
\* issues nothing, changes nothing and does not end the run
ExistingColumnNoError ==
    pc = "columns" =>
        LET issued == SubSeq(ops', Len(ops) + 1, Len(ops'))
        IN  /\ \A k \in DOMAIN issued :
                  /\ issued[k].op = "add_column"
                  /\ issued[k].column \notin OldColumnNames
            /\ Range(ColumnsToEnsure(variant)) \subseteq OldColumnNames =>
                  /\ issued = <<>>
                  /\ columns' = columns
                  /\ exitKind' # "alter"

\* C15: the required-columns step runs before the first add-file call of a
\* run and adds no column twice; a run that ends because ALTER TABLE ... ADD
\* COLUMN raised ends with a non-zero exit code, without an add-file call,
\* with both manifests and the view as they were when it started; and a column
\* that exists already, in whatever letter case, gets no ADD COLUMN statement
\* and causes no error.
C15_SchemaSetupPrecondition ==
    /\ []SchemaSetupFirst
    /\ [][ExistingColumnNoError]_vars

\* the second of two ADD COLUMN statements raised, on a table that spells
\* one required column with capitals
C15_Witness ==
    /\ Ended /\ exitKind = "alter"
    /\ "Content_Charset" \in columns[CC_MAIN_2013_TO_2021]
    /\ Len(Statements("add_column")) = 2
    /\ columns # last.columns

\* the table the creation step at this position of main() is about
CreationTarget ==
    IF pc = "create_new" THEN CC_MAIN_2021_AND_FORWARD ELSE CC_MAIN_2013_TO_2021

\* a creation step leaves a table that exists as it is, and a table it
\* creates has an empty manifest; the other table is not touched
LazyCreation ==
    pc \in {"create_new", "create_old"} =>
        /\ \A t \in Tables \ {CreationTarget} :
              /\ (t \in tables') = (t \in tables)
              /\ columns'[t] = columns[t]
              /\ manifest'[t] = manifest[t]
        /\ IF CreationTarget \in tables
           THEN /\ tables' = tables
                /\ columns' = columns
                /\ manifest' = manifest
           ELSE CreationTarget \in tables' => manifest'[CreationTarget] = {}

\* the sample of each CREATE TABLE statement: the maximal path of the catalog
\* for NEW, the maximal path among the crawls below the boundary for OLD
SampleIsNewest ==
    \A k \in DOMAIN ops :
        ops[k].op = "create_table" =>
            ops[k].sample =
                IF ops[k].table = CC_MAIN_2021_AND_FORWARD
                THEN MaxUrl(crawl_parquet_files)
                ELSE MaxUrl({f \in crawl_parquet_files :
                                LexLess(IdChars(f.crawl), IdChars(Boundary))})

\* C16: the creation step leaves an existing table unchanged (manifest and
\* columns) and creates a missing one with an empty manifest; the schema
\* sample is the maximal path of the whole catalog for NEW and, for OLD, the
\* maximal path among the catalog files of the crawls strictly below the
\* boundary crawl.
C16_LazyTableCreation ==
    /\ []SampleIsNewest
    /\ [][LazyCreation]_vars

\* the executor is waiting in a backoff: main() has the positions of pc and
\* no other, so no state of either script is one
InBackoff == pc \in {"old_backoff", "new_backoff"}

\* C17: after a throttled add the executor waits in a backoff for as long as
\* the run goes on and no cancellation is requested, and once cancellation is
\* requested in that wait no further add-file call is issued.
C17_InterruptibleBackoff ==
    \A k \in DOMAIN log :
        log[k].outcome = "throttled" =>
            /\ (k = Len(log) /\ pc # "exited" /\ ~shutdown_requested) => InBackoff
            /\ k < Len(log) => ~log[k + 1].flag

\* the columns this run's ADD COLUMN statements named, in order
AddedColumns ==
    [k \in DOMAIN Statements("add_column") |-> Statements("add_column")[k].column]

\* the positions of main() after the required-columns step
PastSchemaSetup ==
    pc \in {"select_old", "old_check", "old_add", "old_exit", "select_new",
            "new_check", "new_add", "new_exit", "view"}

\* C18: the two scripts issue the same statements on the same state: once the
\* required-columns step is over, the ADD COLUMN statements of the run are
\* those columnar.py issues on the columns the table had and also those
\* columnar-s3.py issues on them, and every path of the catalog is the
\* script's base prefix followed by a path of the path-list.
C18_SamePipeline ==
    /\ PastSchemaSetup =>
          \A v \in {"http", "s3"} :
              AddedColumns
                = MissingColumns(v, columns[CC_MAIN_2013_TO_2021] \ Range(AddedColumns))
    /\ \A f \in crawl_parquet_files :
          /\ f.base = BasePrefix(variant)
          /\ f.part \in PathList(f.crawl)

\* C19: in one run no file is the subject of two add-file calls, whatever the
\* first call's outcome; every call is on a table whose delta the run has
\* selected and names a file of that delta; and the run has issued no more
\* calls than its two deltas hold files.
C19_AtMostOneAttempt ==
    /\ \A j, k \in DOMAIN log : j # k => log[j].url # log[k].url
    /\ \A k \in DOMAIN log :
          /\ log[k].table \in selected
          /\ log[k].url \in DeltaOf(log[k].table)
    /\ Len(log) <= Len(parquet_files_2013_2021) + Len(parquet_files_2021_forward)

\* a run that went through both deltas although an add raised in each
C19_Witness ==
    /\ Ended /\ exitKind = "completed"
    /\ Len(log) = 4
    /\ \E j, k \in DOMAIN log :
          /\ log[j].table = CC_MAIN_2013_TO_2021 /\ log[j].outcome = "throttled"
          /\ log[k].table = CC_MAIN_2021_AND_FORWARD /\ log[k].outcome = "error"

\* a file whose add raised in the run before is in no manifest, and it is in
\* the delta this run selects for the table of its crawl; and a run
\* that went through to the end with no add raising leaves every catalog
\* file of the two crawl-id ranges in a manifest.
C20_SkippedReappear ==
    /\ \A t \in selected :
          {f \in last.skipped : f \in Routed(t)} \subseteq DeltaOf(t)
    /\ selected = {} => last.skipped \cap Manifests = {}
    /\ (Ended /\ exitKind = "completed" /\ Skipped = {}) =>
          \A t \in Tables : Routed(t) \subseteq Manifests

\* the second run added the files whose add raised in the first
C20_Witness ==
    /\ run = 2 /\ Ended /\ exitKind = "completed"
    /\ last.kind = "completed"
    /\ Cardinality(last.skipped) = 2
    /\ last.skipped \subseteq Absorbed
    /\ Skipped = {}

\* nothing stops the runs any more: no cancellation is requested and no run
\* ends before its ingestion
Calm ==
    /\ ~shutdown_requested
    /\ exitKind \notin FatalKinds \cup {"credentials", "keyboard_interrupt"}

\* every file of the listed crawls that lies in one of the two crawl-id
\* ranges is in a manifest
AllAbsorbed ==
    \A f \in CrawlParquetFiles(variant, CrawlInfo(collinfo)) :
        (InOldRange(f.crawl) \/ InNewRange(f.crawl)) => f \in Manifests

\* C20: with the script run again and again, at every moment the files whose add
\* raised in the run before are in no manifest and in the delta this run
\* selects, and a completed run in which no add raised leaves every file of
\* the two ranges in a manifest; and when from some moment on no run is
\* cancelled or ends before ingestion, every such file is eventually in a
\* manifest.
C20_EventuallyAbsorbed ==
    /\ []C20_SkippedReappear
    /\ (<>[]Calm) => <>AllAbsorbed

\* C21: a run that has ended with the flag set, and not by going through the
\* replacement of the view, has exit code 0 and the view is as it was when
\* the run started.
C21_CancelledRunKeepsView ==
    (Ended /\ shutdown_requested /\ exitKind # "completed") =>
        /\ exitCode = 0
        /\ archives = last.archives

\* the positions of main() from the installation of the signal handler to
\* the check that follows the NEW loop
BeforeLastCheck ==
    pc \in {"crawl_info", "crawl_parquet_files", "create_new", "create_old", "columns",
            "select_old", "old_check", "old_add", "old_exit", "select_new",
            "new_check", "new_add", "new_exit"}

\* a run with the flag set that has not passed the check after the NEW loop
\* has the view it started with; when it has ended, it ended at one of the
\* two checks with exit code 0 or by an uncaught exception with a non-zero
\* exit code; and when it got past schema setup it ended at one of the checks
CancelledOutcome ==
    (shutdown_requested /\ run > 0 /\ pc # "view" /\ exitKind # "completed") =>
        /\ archives = last.archives
        /\ Statements("replace_view") = <<>>
        /\ pc = "exited" =>
              /\ exitKind \in FatalKinds \cup {"cancelled"}
              /\ exitKind = "cancelled" => exitCode = 0
              /\ exitKind \in FatalKinds => (exitCode # 0 /\ selected = {})
              /\ selected # {} => exitKind = "cancelled"

\* once the flag is set before that check, the run does not get to the
\* replacement of the view and does not change the view
NeverPublishes ==
    (shutdown_requested /\ BeforeLastCheck) => (pc' # "view" /\ archives' = archives)

\* C21 (amended): a run in which the flag is set at any moment before the
\* check that follows the NEW loop never replaces the view, which stays as it
\* was before the run (absent if it never existed); it exits with code 0 at
\* the check after the OLD or the NEW loop, unless an uncaught exception of
\* the setup steps ends it first, with a non-zero code.
C21_CancelledRunKeepsView_Amended ==
    /\ []CancelledOutcome
    /\ [][NeverPublishes]_vars

\* a second run added every file of its delta, the last one while
\* cancellation was requested, and left the view of the first run
C21_Witness ==
    /\ run = 2 /\ Ended /\ exitKind = "cancelled" /\ exitCode = 0
    /\ last.archives.defined
    /\ log # <<>> /\ Skipped = {} /\ Abandoned = {}
    /\ selected = Tables

====
